---- MODULE Spec2Model ----
(***************************************************************************)
(* LazyTower (src/src/tower.rs), its membership proofs (src/src/proof.rs)  *)
(* and the two digest implementations of src/src/digest.rs.                *)
(*                                                                         *)
(* A byte string is a sequence of tokens.  A token is a record             *)
(* [c |-> character, h |-> <<>>] for one plain byte, or                    *)
(* [c |-> "sha256", h |-> stream] for the 32 bytes SHA-256 outputs for the *)
(* byte stream `stream` (SHA-256 is taken to be injective on its input).   *)
(* Vec indices are 0-based in the source and 1-based here: element i of a  *)
(* Vec is v[i + 1].                                                        *)
(***************************************************************************)
EXTENDS Integers, Sequences, FiniteSets, TLC

\* ---------------------------------------------------------------- bounds
MaxWidth == 3
MaxItems == 9
\* the caller asks for proofs, and keeps one across appends, only while the tower
\* has at most this many items; bigger towers are reached with no proof in hand
MaxProofItems == 4

\* ------------------------------------------------------------ byte strings
Byte(ch) == [c |-> ch, h |-> <<>>]

Bytes(chars) == [i \in 1..Len(chars) |-> Byte(chars[i])]

\* The items a caller appends: two different one-byte strings.
Items == {<<Byte("a")>>, <<Byte("b")>>}

Digests == {"MockDigest", "Sha256Digest"}

RECURSIVE Concat(_)
Concat(xs) == IF xs = <<>> THEN <<>> ELSE Head(xs) \o Concat(Tail(xs))

RECURSIVE JoinComma(_)
JoinComma(xs) ==
    IF xs = <<>> THEN <<>>
    ELSE IF Len(xs) = 1 THEN xs[1]
    ELSE xs[1] \o <<Byte(",")>> \o JoinComma(Tail(xs))

\* ----------------------------------------------------------------- digests
\* Sha256::new(); hasher.update(...)*; hasher.finalize()
Sha256(stream) == <<[c |-> "sha256", h |-> stream]>>

Sha256Digest_digest_item(item) == Sha256(item)

Sha256Digest_digest_items(items) == Sha256(Concat(items))

MockDigest_digest_item(item) ==
    Bytes(<<"d", "i", "g", "e", "s", "t", "(">>) \o item \o Bytes(<<")">>)

MockDigest_digest_items(items) ==
    Bytes(<<"d", "i", "g", "e", "s", "t", "_", "i", "t", "e", "m", "s", "[">>)
        \o JoinComma(items) \o Bytes(<<"]">>)

\* D::digest_item / D::digest_items for the digest type parameter D
digest_item(D, item) ==
    IF D = "MockDigest" THEN MockDigest_digest_item(item)
    ELSE Sha256Digest_digest_item(item)

digest_items(D, items) ==
    IF D = "MockDigest" THEN MockDigest_digest_items(items)
    ELSE Sha256Digest_digest_items(items)

\* ------------------------------------------------------------ Option, maps
None == <<>>
Some(x) == <<x>>

EmptyMap == [k \in {} |-> 0]

MapInsert(m, key, val) ==
    [k \in (DOMAIN m) \cup {key} |-> IF k = key THEN val ELSE m[k]]

\* ------------------------------------------------------------------- types
\* TowerNode::Item(T) / TowerNode::Digest(D::Output)
TowerNodeItem(item) == [k |-> "Item", v |-> item]

\* faulty variant: the aggregate wrapped as TowerNode::Item
TowerNodeDigest_as_item(digest) == [k |-> "Item", v |-> digest]

TowerNodeDigest(digest) == [k |-> "Digest", v |-> digest]

\* impl AsRef<[u8]> for TowerNode
TowerNode_as_ref(node) ==
    CASE node.k = "Item" -> node.v
      [] node.k = "Digest" -> node.v

\* NodeId::Item(usize) / NodeId::Digest(Vec<NodeId>)
NodeIdItem(i) == [k |-> "Item", idx |-> i, ch |-> <<>>]
NodeIdDigest(children) == [k |-> "Digest", idx |-> 0, ch |-> children]

ItemPosition(l, i) == [level |-> l, index |-> i]

OverflowRecord(l, ids, d) == [level |-> l, node_ids |-> ids, result_digest |-> d]

SeqContains(s, x) == \E i \in 1..Len(s) : s[i] = x

\* ------------------------------------------------------------------- state
VARIABLES
    digest,            \* the type parameter D of LazyTower<T, D>
    width,
    levels,
    item_count,
    items,
    item_positions,
    overflow_records,
    digest_to_nodes,
    level_nodes,
    appended,          \* the arguments of the append calls made so far, in order
    proof,             \* the MembershipProof the caller keeps (None or Some)
    proof_at,          \* index and len() of the call that returned the kept proof,
                       \* and the outcome of verify() on it before further appends
    result             \* what the last call returned

tower_vars == <<width, levels, item_count, items, item_positions,
                overflow_records, digest_to_nodes, level_nodes>>

vars == <<digest, width, levels, item_count, items, item_positions,
          overflow_records, digest_to_nodes, level_nodes, appended,
          proof, proof_at, result>>

\* the LazyTower value `self`
Self ==
    [width |-> width, levels |-> levels, item_count |-> item_count,
     items |-> items, item_positions |-> item_positions,
     overflow_records |-> overflow_records,
     digest_to_nodes |-> digest_to_nodes, level_nodes |-> level_nodes]

\* ------------------------------------------------------------ LazyTower::new
\* Result<_, LazyTowerError>: a, b carry the fields of the error
Ok(v) == [ok |-> TRUE, err |-> "", a |-> 0, b |-> 0, v |-> v]
Err(e, x, y) == [ok |-> FALSE, err |-> e, a |-> x, b |-> y, v |-> <<>>]

\* faulty variant: the width test written as width < 1, which lets width 1 through
new_accepts_one(w) ==
    IF w < 1 THEN Err("InvalidWidth", w, 0)
    ELSE Ok([width |-> w, levels |-> << <<>> >>, item_count |-> 0,
             items |-> EmptyMap, item_positions |-> EmptyMap,
             overflow_records |-> <<>>, digest_to_nodes |-> EmptyMap,
             level_nodes |-> EmptyMap])

new(w) ==
    IF w <= 1 THEN Err("InvalidWidth", w, 0)
    ELSE Ok([width |-> w, levels |-> << <<>> >>, item_count |-> 0,
             items |-> EmptyMap, item_positions |-> EmptyMap,
             overflow_records |-> <<>>, digest_to_nodes |-> EmptyMap,
             level_nodes |-> EmptyMap])

width_(self) == self.width

\* faulty variant: height() counting only the levels that hold a node
height_nonempty(self) ==
    Cardinality({l \in 1..Len(self.levels) : self.levels[l] # <<>>})

\* LazyTower::height
height(self) == Len(self.levels)

\* faulty variant: len() reading the length of level 0 instead of the item counter
len_level0(self) == Len(self.levels[1])

len(self) == self.item_count

is_empty(self) == self.item_count = 0

\* level(index): Option<&Vec<TowerNode>>
level(self, index) ==
    IF index + 1 \in 1..Len(self.levels) THEN Some(self.levels[index + 1]) ELSE None

\* ----------------------------------------------------------- append cascade
\* faulty variant: the loop written `while self.levels.len() <= level + 1`
RECURSIVE EnsureLevels_ahead(_, _)
EnsureLevels_ahead(lvls, lvl) ==
    IF Len(lvls) <= lvl + 1 THEN EnsureLevels_ahead(Append(lvls, <<>>), lvl) ELSE lvls

\* while self.levels.len() <= level { self.levels.push(Vec::new()) }
RECURSIVE EnsureLevels(_, _)
EnsureLevels(lvls, lvl) ==
    IF Len(lvls) <= lvl THEN EnsureLevels(Append(lvls, <<>>), lvl) ELSE lvls

\* faulty variant: every slot read from index 0 of the level
RECURSIVE CollectNodeIds_first(_, _, _, _)
CollectNodeIds_first(lnodes, lvl, i, w) ==
    IF i >= w THEN <<>>
    ELSE (IF <<lvl, 0>> \in DOMAIN lnodes THEN <<lnodes[<<lvl, 0>>]>> ELSE <<>>)
             \o CollectNodeIds_first(lnodes, lvl, i + 1, w)

\* for i in 0..width { if let Some(nid) = level_nodes.get(&(level, i)) { push } }
RECURSIVE CollectNodeIds(_, _, _, _)
CollectNodeIds(lnodes, lvl, i, w) ==
    IF i >= w THEN <<>>
    ELSE (IF <<lvl, i>> \in DOMAIN lnodes THEN <<lnodes[<<lvl, i>>]>> ELSE <<>>)
             \o CollectNodeIds(lnodes, lvl, i + 1, w)

\* faulty variant: the whole map cleared, `self.level_nodes.clear()`
RemoveLevelNodes_clear(lnodes, lvl, w) ==
    [k \in {} |-> lnodes[k]]

\* for i in 0..width { level_nodes.remove(&(level, i)) }
RemoveLevelNodes(lnodes, lvl, w) ==
    [k \in {q \in DOMAIN lnodes : ~(q[1] = lvl /\ q[2] \in 0..(w - 1))} |-> lnodes[k]]

\* the `if level == 0` loop over the new record's node_ids
UpdateItemPositions(positions, ids, lvl, lvls) ==
    [idx \in DOMAIN positions |->
        IF SeqContains(ids, NodeIdItem(idx))
        THEN ItemPosition(lvl + 1,
                          IF lvl + 2 \in 1..Len(lvls) THEN Len(lvls[lvl + 2]) ELSE 0)
        ELSE positions[idx]]

AsRefAll(nodes) == [i \in 1..Len(nodes) |-> TowerNode_as_ref(nodes[i])]

\* faulty variant: the overflow test written with > instead of >=
LevelOverflows_gt(nodes, w) == Len(nodes) > w

\* if self.levels[level].len() >= self.width
LevelOverflows(nodes, w) == Len(nodes) >= w

\* faulty variant: the digest taken over the level without its newest node
LevelDigest_stale(D, nodes) ==
    digest_items(D, AsRefAll(SubSeq(nodes, 1, Len(nodes) - 1)))

\* faulty variant: the digest taken over the nodes as an unordered collection
LevelDigest_unordered(D, nodes) ==
    digest_items(D, AsRefAll(
        CHOOSE q \in {[i \in 1..Len(nodes) |-> nodes[f[i]]] :
                         f \in Permutations(1..Len(nodes))} : TRUE))

\* D::digest_items(&self.levels[level])
LevelDigest(D, nodes) == digest_items(D, AsRefAll(nodes))

\* faulty variant: the new record put in front of the ledger
PushRecord_front(records, record) == <<record>> \o records

\* self.overflow_records.push(OverflowRecord { .. })
PushRecord(records, record) == Append(records, record)

RECURSIVE append_to_level(_, _, _, _, _)
append_to_level(D, self, lvl, node, node_id) ==
    LET lvls1 == EnsureLevels(self.levels, lvl)
        node_index == Len(lvls1[lvl + 1])
        lvls2 == [lvls1 EXCEPT ![lvl + 1] = Append(@, node)]
        lnodes2 == MapInsert(self.level_nodes, <<lvl, node_index>>, node_id)
    IN  IF LevelOverflows(lvls2[lvl + 1], self.width)
        THEN LET overflow_node_ids == CollectNodeIds(lnodes2, lvl, 0, self.width)
                 dg == LevelDigest(D, lvls2[lvl + 1])
                 digest_node_id == NodeIdDigest(overflow_node_ids)
                 positions2 ==
                     IF lvl = 0
                     THEN UpdateItemPositions(self.item_positions,
                                              overflow_node_ids, lvl, lvls2)
                     ELSE self.item_positions
                 self2 ==
                     [self EXCEPT
                        !.levels = [lvls2 EXCEPT ![lvl + 1] = <<>>],
                        !.level_nodes = RemoveLevelNodes(lnodes2, lvl, self.width),
                        !.digest_to_nodes = MapInsert(@, dg, overflow_node_ids),
                        !.overflow_records =
                            PushRecord(@, OverflowRecord(lvl, overflow_node_ids, dg)),
                        !.item_positions = positions2]
             IN  append_to_level(D, self2, lvl + 1, TowerNodeDigest(dg), digest_node_id)
        ELSE [self EXCEPT !.levels = lvls2, !.level_nodes = lnodes2]

\* faulty variant: the item stored under its slot in level 0, not its index
StoreItem_by_position(stored, item_index, position, item) ==
    MapInsert(stored, position.index, item)

\* self.items.insert(item_index, item.clone())
StoreItem(stored, item_index, position, item) ==
    MapInsert(stored, item_index, item)

\* LazyTower::append
append(D, self, item) ==
    LET item_index == self.item_count
        position == ItemPosition(0, Len(self.levels[1]))
        node_id == NodeIdItem(item_index)
        self1 == [self EXCEPT
                    !.item_count = @ + 1,
                    !.items = StoreItem(@, item_index, position, item),
                    !.item_positions = MapInsert(@, item_index, position),
                    !.level_nodes =
                        MapInsert(@, <<position.level, position.index>>, node_id)]
    IN  append_to_level(D, self1, 0, TowerNodeItem(item), node_id)

\* ------------------------------------------------------------- root_digest
\* for level in self.levels.iter().rev(): the first non-empty level decides
RECURSIVE RootScan(_, _, _)
RootScan(D, lvls, i) ==
    IF i = 0 THEN None
    ELSE IF lvls[i] # <<>>
         THEN IF Len(lvls[i]) = 1
              THEN Some(CASE lvls[i][1].k = "Item" -> digest_item(D, lvls[i][1].v)
                          [] lvls[i][1].k = "Digest" -> lvls[i][1].v)
              ELSE Some(digest_items(D, AsRefAll(lvls[i])))
         ELSE RootScan(D, lvls, i - 1)

\* faulty variant: the scan run from level 0 upward instead of from the top downward
RECURSIVE RootScanUp(_, _, _)
RootScanUp(D, lvls, i) ==
    IF i > Len(lvls) THEN None
    ELSE IF lvls[i] # <<>>
         THEN IF Len(lvls[i]) = 1
              THEN Some(CASE lvls[i][1].k = "Item" -> digest_item(D, lvls[i][1].v)
                          [] lvls[i][1].k = "Digest" -> lvls[i][1].v)
              ELSE Some(digest_items(D, AsRefAll(lvls[i])))
         ELSE RootScanUp(D, lvls, i + 1)

root_digest_bottom_up(D, self) == RootScanUp(D, self.levels, 1)

root_digest(D, self) == RootScan(D, self.levels, Len(self.levels))

\* ------------------------------------------------------------ proof path
\* PathElement::Siblings / PathElement::RawSiblings
PathElementSiblings(position, siblings) ==
    [k |-> "Siblings", position |-> position, siblings |-> siblings]
PathElementRawSiblings(position, siblings) ==
    [k |-> "RawSiblings", position |-> position, siblings |-> siblings]

\* ProofPath::add_siblings / add_raw_siblings
add_siblings(path, position, siblings) ==
    Append(path, PathElementSiblings(position, siblings))
add_raw_siblings(path, position, siblings) ==
    Append(path, PathElementRawSiblings(position, siblings))

\* faulty variant: the loop written `for i in 0..siblings.len()`, one slot short
RECURSIVE Reconstruct_short(_, _, _, _, _)
Reconstruct_short(siblings, position, current, i, sibling_idx) ==
    IF i >= Len(siblings) THEN <<>>
    ELSE IF i = position
         THEN <<current>>
                  \o Reconstruct_short(siblings, position, current, i + 1, sibling_idx)
         ELSE IF sibling_idx < Len(siblings)
              THEN <<siblings[sibling_idx + 1]>>
                       \o Reconstruct_short(siblings, position, current, i + 1,
                                            sibling_idx + 1)
              ELSE Reconstruct_short(siblings, position, current, i + 1, sibling_idx)

\* the loop `for i in 0..=siblings.len()` that rebuilds a group
RECURSIVE Reconstruct(_, _, _, _, _)
Reconstruct(siblings, position, current, i, sibling_idx) ==
    IF i > Len(siblings) THEN <<>>
    ELSE IF i = position
         THEN <<current>> \o Reconstruct(siblings, position, current, i + 1, sibling_idx)
         ELSE IF sibling_idx < Len(siblings)
              THEN <<siblings[sibling_idx + 1]>>
                       \o Reconstruct(siblings, position, current, i + 1, sibling_idx + 1)
              ELSE Reconstruct(siblings, position, current, i + 1, sibling_idx)

\* faulty variant: a RawSiblings element at path index 0 grouped with the
\* item's digest instead of the raw item
VerifyStep_digested(D, element, level_idx, item, cur) ==
    LET current == IF cur.is_raw THEN digest_item(D, item) ELSE cur.digest
    IN  [is_raw |-> FALSE,
         digest |-> digest_items(D,
             Reconstruct(element.siblings, element.position, current, 0, 0))]

\* the body of `for (level_idx, element) in self.elements.iter().enumerate()`;
\* cur is [is_raw |-> current_is_raw, digest |-> current_digest]
VerifyStep(D, element, level_idx, item, cur) ==
    LET current == IF cur.is_raw THEN digest_item(D, item) ELSE cur.digest
    IN  CASE element.k = "Siblings" ->
               [is_raw |-> FALSE,
                digest |-> digest_items(D,
                    Reconstruct(element.siblings, element.position, current, 0, 0))]
          [] element.k = "RawSiblings" /\ level_idx = 0 ->
               [is_raw |-> FALSE,
                digest |-> digest_items(D,
                    Reconstruct(element.siblings, element.position, item, 0, 0))]
          [] element.k = "RawSiblings" /\ level_idx # 0 ->
               [is_raw |-> FALSE,
                digest |-> digest_items(D,
                    Reconstruct(element.siblings, element.position, current, 0, 0))]

RECURSIVE VerifyLoop(_, _, _, _, _)
VerifyLoop(D, elements, level_idx, item, cur) ==
    IF level_idx >= Len(elements) THEN cur
    ELSE VerifyLoop(D, elements, level_idx + 1, item,
                    VerifyStep(D, elements[level_idx + 1], level_idx, item, cur))

\* faulty variant: an item no element consumed is compared undigested
final_digest_raw(D, path, item) ==
    LET cur == VerifyLoop(D, path, 0, item, [is_raw |-> TRUE, digest |-> <<>>])
    IN  IF cur.is_raw THEN item ELSE cur.digest

\* what ProofPath::verify compares with expected_root
final_digest(D, path, item) ==
    LET cur == VerifyLoop(D, path, 0, item, [is_raw |-> TRUE, digest |-> <<>>])
    IN  IF cur.is_raw THEN digest_item(D, item) ELSE cur.digest

\* faulty variant: a path without elements accepted without comparing
ProofPath_verify_empty_ok(D, path, item, expected_root) ==
    path = <<>> \/ final_digest(D, path, item) = expected_root

\* ProofPath::verify
ProofPath_verify(D, path, item, expected_root) ==
    final_digest(D, path, item) = expected_root

\* faulty variant: the path checked against the root the tower has now
MembershipProof_verify_live(D, p) ==
    ProofPath_verify(D, p.path, p.item, root_digest(D, Self)[1])

\* MembershipProof::verify
MembershipProof_verify(D, p) == ProofPath_verify(D, p.path, p.item, p.root)

\* -------------------------------------------------------- proof generation
\* index of the first record whose node_ids contain node_id, 0 if none
FirstRecordWith(records, node_id) ==
    IF \E r \in 1..Len(records) : SeqContains(records[r].node_ids, node_id)
    THEN CHOOSE r \in 1..Len(records) :
            /\ SeqContains(records[r].node_ids, node_id)
            /\ \A q \in 1..(r - 1) : ~SeqContains(records[q].node_ids, node_id)
    ELSE 0

\* faulty variant: the position counted from one
PositionIn_one_based(ids, node_id) ==
    IF SeqContains(ids, node_id)
    THEN CHOOSE i \in 1..Len(ids) :
             ids[i] = node_id /\ \A j \in (i + 1)..Len(ids) : ids[j] # node_id
    ELSE 0

\* `position = i` on every match: the last match wins
PositionIn(ids, node_id) ==
    IF SeqContains(ids, node_id)
    THEN (CHOOSE i \in 1..Len(ids) :
             ids[i] = node_id /\ \A j \in (i + 1)..Len(ids) : ids[j] # node_id) - 1
    ELSE 0

\* level-0 record: the stored raw items of the other members
RawSiblingsOf(self, ids, node_id) ==
    Concat([i \in 1..Len(ids) |->
        IF ids[i] = node_id THEN <<>>
        ELSE IF ids[i].k = "Item" /\ ids[i].idx \in DOMAIN self.items
             THEN <<self.items[ids[i].idx]>>
             ELSE <<>>])

\* the inner `for overflow_record in &self.overflow_records { ... break }`
RecordDigestOf(records, child_nodes) ==
    IF \E r \in 1..Len(records) : records[r].node_ids = child_nodes
    THEN <<records[CHOOSE r \in 1..Len(records) :
                /\ records[r].node_ids = child_nodes
                /\ \A q \in 1..(r - 1) : records[q].node_ids # child_nodes
          ].result_digest>>
    ELSE <<>>

\* record at level > 0: the recorded digests of the other members
DigestSiblingsOf(self, ids, node_id) ==
    Concat([i \in 1..Len(ids) |->
        IF ids[i] = node_id THEN <<>>
        ELSE IF ids[i].k = "Digest"
             THEN RecordDigestOf(self.overflow_records, ids[i].ch)
             ELSE <<>>])

\* the `for ((level, index), nid) in &self.level_nodes` search
LivePositionsOf(self, node_id) ==
    {key \in DOMAIN self.level_nodes : self.level_nodes[key] = node_id}

\* faulty variant: the test written `level_nodes.len() >= 1`
LiveLevelElement_always(self, key, path) ==
    IF key[1] + 1 \in 1..Len(self.levels) /\ Len(self.levels[key[1] + 1]) >= 1
    THEN LET level_nodes_ == self.levels[key[1] + 1]
             siblings == Concat([i \in 1..Len(level_nodes_) |->
                            IF i - 1 # key[2]
                            THEN <<TowerNode_as_ref(level_nodes_[i])>>
                            ELSE <<>>])
         IN  add_raw_siblings(path, key[2], siblings)
    ELSE path

LiveLevelElement(self, key, path) ==
    IF key[1] + 1 \in 1..Len(self.levels) /\ Len(self.levels[key[1] + 1]) > 1
    THEN LET level_nodes_ == self.levels[key[1] + 1]
             siblings == Concat([i \in 1..Len(level_nodes_) |->
                            IF i - 1 # key[2]
                            THEN <<TowerNode_as_ref(level_nodes_[i])>>
                            ELSE <<>>])
         IN  add_raw_siblings(path, key[2], siblings)
    ELSE path

RECURSIVE build_proof_path_recursive(_, _, _)
build_proof_path_recursive(self, node_id, path) ==
    LET r == FirstRecordWith(self.overflow_records, node_id)
    IN  IF r # 0
        THEN LET record == self.overflow_records[r]
                 position == PositionIn(record.node_ids, node_id)
                 path2 ==
                     IF record.level = 0
                     THEN add_raw_siblings(path, position,
                              RawSiblingsOf(self, record.node_ids, node_id))
                     ELSE add_siblings(path, position,
                              DigestSiblingsOf(self, record.node_ids, node_id))
             IN  build_proof_path_recursive(self, NodeIdDigest(record.node_ids), path2)
        ELSE IF LivePositionsOf(self, node_id) # {}
             THEN LiveLevelElement(self,
                      CHOOSE key \in LivePositionsOf(self, node_id) : TRUE, path)
             ELSE path

\* the level in which build_proof_path_recursive finds node_id live and
\* returns (level 0 is 0); -1 when it returns without finding it
RECURSIVE WalkEndLevel(_, _)
WalkEndLevel(self, node_id) ==
    LET r == FirstRecordWith(self.overflow_records, node_id)
    IN  IF r # 0
        THEN WalkEndLevel(self, NodeIdDigest(self.overflow_records[r].node_ids))
        ELSE IF LivePositionsOf(self, node_id) # {}
             THEN (CHOOSE key \in LivePositionsOf(self, node_id) : TRUE)[1]
             ELSE -1

\* the ledger positions of the records build_proof_path_recursive follows from
\* node_id, in the order it follows them
RECURSIVE WalkRecords(_, _)
WalkRecords(self, node_id) ==
    LET r == FirstRecordWith(self.overflow_records, node_id)
    IN  IF r # 0
        THEN <<r>> \o WalkRecords(self, NodeIdDigest(self.overflow_records[r].node_ids))
        ELSE <<>>

MembershipProof(item, path, root) == [item |-> item, path |-> path, root |-> root]

\* faulty variant: the bounds test written with > instead of >=
IndexOutOfBounds_gt(self, index) ==
    self.item_count = 0 \/ index > self.item_count

\* if self.item_count == 0 || index >= self.item_count
IndexOutOfBounds(self, index) ==
    self.item_count = 0 \/ index >= self.item_count

\* LazyTower::generate_proof
generate_proof(D, self, index) ==
    IF IndexOutOfBounds(self, index)
    THEN Err("InvalidIndex", index, self.item_count)
    ELSE IF index \notin DOMAIN self.items
    THEN Err("ProofGenerationNotImplemented", 0, 0)
    ELSE IF root_digest(D, self) = None
    THEN Err("ProofGenerationNotImplemented", 0, 0)
    ELSE IF self.item_count = 1
    THEN Ok(MembershipProof(self.items[index], <<>>, root_digest(D, self)[1]))
    ELSE Ok(MembershipProof(self.items[index],
                build_proof_path_recursive(self, NodeIdItem(index), <<>>),
                root_digest(D, self)[1]))

\* ----------------------------------------------------------------- actions
\* what the caller sees of a call: its name, its integer argument, and the
\* returned Result (for verify, ok is the returned bool; for an accessor, val
\* holds the returned value)
Returned(op, arg, r) ==
    [op |-> op, arg |-> arg, ok |-> r.ok, err |-> r.err, a |-> r.a, b |-> r.b,
     val |-> <<>>]

SetTower(self) ==
    /\ width' = self.width
    /\ levels' = self.levels
    /\ item_count' = self.item_count
    /\ items' = self.items
    /\ item_positions' = self.item_positions
    /\ overflow_records' = self.overflow_records
    /\ digest_to_nodes' = self.digest_to_nodes
    /\ level_nodes' = self.level_nodes

NoProofAt == [index |-> 0, len |-> 0, first_verify |-> "none"]

Init ==
    \E D \in Digests, w \in 2..MaxWidth :
        /\ digest = D
        /\ width = new(w).v.width
        /\ levels = new(w).v.levels
        /\ item_count = new(w).v.item_count
        /\ items = new(w).v.items
        /\ item_positions = new(w).v.item_positions
        /\ overflow_records = new(w).v.overflow_records
        /\ digest_to_nodes = new(w).v.digest_to_nodes
        /\ level_nodes = new(w).v.level_nodes
        /\ appended = <<>>
        /\ proof = None
        /\ proof_at = NoProofAt
        /\ result = Returned("new", w, new(w))

\* let tower = LazyTower::<T, D>::new(w)?  (on Err the caller keeps what it had).
\* new reads nothing of an existing tower; the caller constructs before it appends.
New(D, w) ==
    /\ item_count = 0
    /\ result' = Returned("new", w, new(w))
    /\ IF new(w).ok
       THEN /\ digest' = D
            /\ SetTower(new(w).v)
            /\ appended' = <<>>
            /\ proof' = None
            /\ proof_at' = NoProofAt
       ELSE UNCHANGED <<digest, tower_vars, appended, proof, proof_at>>

\* tower.append(item)
AppendItem(item) ==
    /\ item_count < MaxItems
    /\ proof = None \/ item_count < MaxProofItems
    /\ SetTower(append(digest, Self, item))
    /\ appended' = Append(appended, item)
    /\ result' = Returned("append", 0, Ok(<<>>))
    /\ UNCHANGED <<digest, proof, proof_at>>

\* faulty variant: the item taken out of self.items instead of cloned
GenerateProof_taking(index) ==
    LET r == generate_proof(digest, Self, index)
    IN  /\ item_count <= MaxProofItems
        /\ result' = Returned("generate_proof", index, r)
        /\ IF r.ok
           THEN /\ proof' = Some(r.v)
                /\ proof_at' = [NoProofAt EXCEPT !.index = index, !.len = item_count]
                /\ items' = [k \in DOMAIN items \ {index} |-> items[k]]
           ELSE UNCHANGED <<proof, proof_at, items>>
        /\ UNCHANGED <<digest, width, levels, item_count, item_positions,
                       overflow_records, digest_to_nodes, level_nodes, appended>>

\* let proof = tower.generate_proof(index)?
GenerateProof(index) ==
    LET r == generate_proof(digest, Self, index)
    IN  /\ item_count <= MaxProofItems
        /\ result' = Returned("generate_proof", index, r)
        /\ IF r.ok
           THEN /\ proof' = Some(r.v)
                /\ proof_at' = [NoProofAt EXCEPT !.index = index, !.len = item_count]
           ELSE UNCHANGED <<proof, proof_at>>
        /\ UNCHANGED <<digest, tower_vars, appended>>

\* the accessors that take &self and return a value
ReadOps == {"height", "len", "width", "is_empty", "level", "root_digest"}

\* tower.height(), tower.len(), tower.width(), tower.is_empty(), tower.level(d),
\* tower.root_digest()
ReadValue(op, d) ==
    CASE op = "height" -> height(Self)
      [] op = "len" -> len(Self)
      [] op = "width" -> width_(Self)
      [] op = "is_empty" -> is_empty(Self)
      [] op = "level" -> level(Self, d)
      [] op = "root_digest" -> root_digest(digest, Self)

\* let v = tower.<accessor>()   (read before any proof is asked for, on the
\* towers proofs are asked of)
Read(op, d) ==
    /\ proof = None
    /\ item_count <= MaxProofItems
    /\ op = "level" \/ d = 0
    /\ result' = [Returned(op, d, Ok(<<>>)) EXCEPT !.val = <<ReadValue(op, d)>>]
    /\ UNCHANGED <<digest, tower_vars, appended, proof, proof_at>>

\* the paths a caller builds by hand with ProofPath::new, add_siblings and
\* add_raw_siblings: up to two elements, positions inside and past the siblings
HandSiblings == {<<>>, <<<<Byte("a")>>>>, <<<<Byte("a")>>, <<Byte("b")>>>>}

HandElements ==
    {PathElementSiblings(position, siblings) :
        position \in 0..2, siblings \in HandSiblings}
    \cup {PathElementRawSiblings(position, siblings) :
        position \in 0..2, siblings \in HandSiblings}

HandPaths ==
    {<<>>} \cup {add_siblings(<<>>, e.position, e.siblings) :
                    e \in {h \in HandElements : h.k = "Siblings"}}
          \cup {add_raw_siblings(<<>>, e.position, e.siblings) :
                    e \in {h \in HandElements : h.k = "RawSiblings"}}
          \cup {<<e1, e2>> : e1 \in HandElements, e2 \in HandElements}

\* the tower has just been constructed and not been used yet
BeforeUse == result.op = "new" /\ result.ok

\* path.verify(&item, &expected_root) on a hand-built path; it reads no tower
\* and is called before the tower is used
VerifyPath(path, item, expected_root) ==
    /\ BeforeUse
    /\ result' = [Returned("ProofPath_verify", 0, Ok(<<>>)) EXCEPT
                      !.ok = ProofPath_verify(digest, path, item, expected_root),
                      !.val = <<path, item, expected_root>>]
    /\ UNCHANGED <<digest, tower_vars, appended, proof, proof_at>>

\* the groups a caller hands to D::digest_items: two byte strings of zero to
\* two item bytes each
HandGroups ==
    LET strings == {<<>>} \cup Items \cup {x \o y : x \in Items, y \in Items}
    IN  {<<x, y>> : x \in strings, y \in strings}

\* D::digest_items(&group), called before the tower is used
DigestItems(group) ==
    /\ BeforeUse
    /\ result' = [Returned("digest_items", 0, Ok(<<>>)) EXCEPT
                      !.val = <<group, digest_items(digest, group)>>]
    /\ UNCHANGED <<digest, tower_vars, appended, proof, proof_at>>

\* proof.verify()   (proof_at remembers what the call said that was made before
\* any further append)
Verify ==
    LET ok == MembershipProof_verify(digest, proof[1])
    IN  /\ proof # None
        /\ result' = [Returned("verify", 0, Ok(<<>>)) EXCEPT !.ok = ok]
        /\ proof_at' = IF proof_at.first_verify = "none" /\ proof_at.len = item_count
                       THEN [proof_at EXCEPT
                                !.first_verify = IF ok THEN "true" ELSE "false"]
                       ELSE proof_at
        /\ UNCHANGED <<digest, tower_vars, appended, proof>>

\* drop(proof)
DropProof ==
    /\ proof # None
    /\ proof' = None
    /\ proof_at' = NoProofAt
    /\ UNCHANGED <<digest, tower_vars, appended, result>>

Next ==
    \/ \E D \in Digests, w \in 0..MaxWidth : New(D, w)
    \/ \E item \in Items : AppendItem(item)
    \/ \E index \in 0..item_count : GenerateProof(index)
    \/ \E op \in ReadOps, d \in 0..Len(levels) : Read(op, d)
    \/ BeforeUse /\ \E path \in HandPaths, item \in Items, other \in Items :
                      VerifyPath(path, item, final_digest(digest, path, other))
    \/ BeforeUse /\ \E group \in HandGroups : DigestItems(group)
    \/ Verify
    \/ DropProof

Spec == Init /\ [][Next]_vars

\* the tower alone: construction and appends, with no proof asked for and no
\* accessor read (the operations that take &mut self or build the tower)
NextTower ==
    \/ \E D \in Digests, w \in 0..MaxWidth : New(D, w)
    \/ \E item \in Items : AppendItem(item)

TowerSpec == Init /\ [][NextTower]_vars

\* the tower and the proofs asked of it: construction, appends,
\* generate_proof and the drop of its result
NextProof ==
    \/ \E D \in Digests, w \in 0..MaxWidth : New(D, w)
    \/ \E item \in Items : AppendItem(item)
    \/ \E index \in 0..item_count : GenerateProof(index)
    \/ DropProof

ProofSpec == Init /\ [][NextProof]_vars

\* ================================================================== claims
RECURSIVE Pow(_, _)
Pow(b, e) == IF e = 0 THEN 1 ELSE b * Pow(b, e - 1)

\* bytes of the complete W-ary ordered-group digest tree of depth d over the
\* block xs[start + 1 .. start + W^d]
RECURSIVE GroupTree(_, _, _, _, _)
GroupTree(D, W, d, start, xs) ==
    IF d = 0 THEN xs[start + 1]
    ELSE digest_items(D,
            [k \in 1..W |-> GroupTree(D, W, d - 1, start + (k - 1) * Pow(W, d - 1), xs)])

\* C1: right after the item with index len() - 1 was appended, generate_proof
\* of that index succeeds and the proof verifies.
C1_RoundTripLast ==
    item_count >= 1 =>
        LET r == generate_proof(digest, Self, item_count - 1)
        IN  r.ok /\ MembershipProof_verify(digest, r.v)

\* C2: after any appends, generate_proof succeeds for every index below len()
\* and the proof verifies.
C2_EveryIndexVerifies ==
    \A i \in 0..(item_count - 1) :
        LET r == generate_proof(digest, Self, i)
        IN  r.ok /\ MembershipProof_verify(digest, r.v)

\* C3: a proof kept while further items are appended verifies against its own
\* stored root after those appends.
C3_StaleProofVerifies ==
    (proof # None /\ item_count > proof_at.len) =>
        MembershipProof_verify(digest, proof[1])

\* C4: after further appends the live root differs from the root stored in a
\* proof generated before them.
C4_RootMovesOn ==
    (proof # None /\ item_count > proof_at.len) =>
        root_digest(digest, Self) # Some(proof[1].root)

\* the highest non-empty level (1-based), for a tower that has one
TopLevel(lvls) ==
    CHOOSE t \in 1..Len(lvls) :
        lvls[t] # <<>> /\ \A u \in (t + 1)..Len(lvls) : lvls[u] = <<>>

\* C5: root_digest() is None iff the tower is empty; otherwise only the
\* top-most non-empty level decides it: one node gives that node's digest
\* (digest_item of a raw item, the stored digest of a Digest node), several
\* nodes give digest_items over them in order.
C5_RootIsTopLevel ==
    /\ (root_digest(digest, Self) = None) <=> (item_count = 0)
    /\ item_count > 0 =>
          /\ \E t \in 1..Len(levels) : levels[t] # <<>>
          /\ LET top == levels[TopLevel(levels)]
             IN  root_digest(digest, Self) =
                   Some(IF Len(top) = 1
                        THEN IF top[1].k = "Item" THEN digest_item(digest, top[1].v)
                             ELSE top[1].v
                        ELSE digest_items(digest,
                                 [i \in 1..Len(top) |-> top[i].v]))

C5_Witness ==
    /\ result.op = "append"
    /\ Len(levels) >= 2
    /\ levels[1] # <<>>
    /\ Len(levels[Len(levels)]) > 1

\* C6: level 0 holds the last (n mod W) appended items as Item nodes in append
\* order, and node j of a level d >= 1 is a Digest node carrying the
\* ordered-group digest tree of a contiguous block of W^d consecutive items.
C6_LevelsAreGroupTrees ==
    LET n == Len(appended)
    IN  /\ Len(levels[1]) = n % width
        /\ \A d \in 0..(Len(levels) - 1) :
              LET blk == Pow(width, d)
                  base == (n \div (blk * width)) * (blk * width)
              IN  \A j \in 1..Len(levels[d + 1]) :
                     /\ base + j * blk <= n
                     /\ levels[d + 1][j] =
                          IF d = 0 THEN TowerNodeItem(appended[base + j])
                          ELSE TowerNodeDigest(
                                   GroupTree(digest, width, d, base + (j - 1) * blk,
                                             appended))

C6_Witness ==
    /\ result.op = "append"
    /\ width = 3
    /\ Len(appended) = 7
    /\ Len(levels[1]) = 1
    /\ Len(levels) = 2 /\ Len(levels[2]) = 2

\* C7: after exactly W^k appends (k >= 1) height() is k + 1, the levels below
\* k are empty, level k holds one Digest node, and the root is the complete
\* W-ary ordered-group digest tree over the items in append order.
C7_FullTowerRoot ==
    \A k \in 1..MaxItems :
        Len(appended) = Pow(width, k) =>
            /\ height(Self) = k + 1
            /\ \A d \in 1..k : levels[d] = <<>>
            /\ Len(levels[k + 1]) = 1
            /\ levels[k + 1][1].k = "Digest"
            /\ root_digest(digest, Self) =
                   Some(GroupTree(digest, width, k, 0, appended))

C7_Witness ==
    /\ width = 2
    /\ Len(appended) = 8
    /\ Len(levels) = 4

\* C8: after n appends len() is n, is_empty() holds iff n = 0, and
\* root_digest() is None iff n = 0.
C8_LenCountsAppends ==
    LET n == Len(appended)
    IN  /\ len(Self) = n
        /\ is_empty(Self) <=> (n = 0)
        /\ (root_digest(digest, Self) = None) <=> (n = 0)

C8_Witness ==
    /\ result.op = "append"
    /\ Len(appended) = 3
    /\ Len(levels) >= 2

\* C9: when an append call has returned, every level holds fewer than W nodes.
C9_NoLevelLeftFull ==
    \A d \in 1..Len(levels) : Len(levels[d]) < width

C9_Witness ==
    /\ result.op = "append"
    /\ Len(overflow_records) >= 3
    /\ levels[1] = <<>>

\* C10: new(width) fails with InvalidWidth carrying the width when the width
\* is 0 or 1, and for a width above 1 it returns a tower whose width() is it.
C10_NewChecksWidth ==
    result.op = "new" =>
        IF result.arg <= 1
        THEN ~result.ok /\ result.err = "InvalidWidth" /\ result.a = result.arg
        ELSE result.ok /\ width_(Self) = result.arg

C10_Witness ==
    /\ result.op = "new"
    /\ result.arg = 1
    /\ ~result.ok


\* C11: generate_proof(index) returns InvalidIndex { index, max } with max the
\* current len() whenever the tower is empty or index >= len(), and never
\* returns InvalidIndex for an index below len().
C11_InvalidIndexOnlyOutOfRange ==
    /\ \A index \in 0..(MaxItems + 1) :
          LET r == generate_proof(digest, Self, index)
          IN  IF item_count = 0 \/ index >= item_count
              THEN r = Err("InvalidIndex", index, len(Self))
              ELSE r.err # "InvalidIndex"
    /\ (result.op = "generate_proof" /\ result.err = "InvalidIndex") =>
          /\ ~result.ok
          /\ result.a = result.arg
          /\ result.b = item_count
          /\ result.arg >= item_count

C11_Witness ==
    /\ result.op = "generate_proof"
    /\ result.err = "InvalidIndex"
    /\ item_count >= 2
    /\ result.arg = item_count

\* C12: on every reachable tower generate_proof returns Ok for every index
\* below len(): the item is stored and the root is Some, so
\* ProofGenerationNotImplemented is never returned.
C12_ValidIndexIsOk ==
    /\ \A index \in 0..(item_count - 1) :
          /\ index \in DOMAIN items
          /\ root_digest(digest, Self) # None
          /\ generate_proof(digest, Self, index).ok
    /\ \A index \in item_count..(MaxItems + 1) :
          generate_proof(digest, Self, index).err # "ProofGenerationNotImplemented"
    /\ result.err # "ProofGenerationNotImplemented"

C12_Witness ==
    /\ result.op = "generate_proof"
    /\ result.ok
    /\ result.arg = item_count - 1
    /\ overflow_records # <<>>
    /\ item_count > width

\* C13: on a tower holding exactly one item, of any width, generate_proof(0)
\* returns a proof with an empty path whose root is digest_item of the item,
\* and the proof verifies.
C13_SingleItemProof ==
    item_count = 1 =>
        LET r == generate_proof(digest, Self, 0)
        IN  /\ r.ok
            /\ r.v.path = <<>>
            /\ r.v.item = appended[1]
            /\ r.v.root = digest_item(digest, appended[1])
            /\ MembershipProof_verify(digest, r.v)

C13_Witness ==
    /\ item_count = 1
    /\ width = 3
    /\ proof # None
    /\ proof[1].path = <<>>
    /\ result.op = "verify"
    /\ result.ok

\* C14: for every valid index i the returned proof carries the i-th appended
\* item and, as its root, root_digest() at the moment of the call.
C14_ProofCarriesItemAndRoot ==
    /\ \A i \in 0..(item_count - 1) :
          LET r == generate_proof(digest, Self, i)
          IN  r.ok => /\ r.v.item = appended[i + 1]
                      /\ Some(r.v.root) = root_digest(digest, Self)
    /\ proof # None => proof[1].item = appended[proof_at.index + 1]
    /\ (proof # None /\ proof_at.len = item_count) =>
          Some(proof[1].root) = root_digest(digest, Self)

C14_Witness ==
    /\ result.op = "generate_proof"
    /\ result.ok
    /\ proof # None
    /\ proof_at.len = item_count
    /\ item_count = 3
    /\ proof_at.index = 2
    /\ appended[1] # appended[3]


\* C15: height(), len(), width(), is_empty(), level(d), root_digest() and
\* generate_proof(i), successful or failing, leave every field of the tower
\* unchanged, and a call repeated with no append in between returns what it
\* returned before.
C15_ReadsLeaveTowerUnchanged ==
    [][ result'.op \in (ReadOps \cup {"generate_proof"}) =>
          /\ tower_vars' = tower_vars
          /\ digest' = digest
          /\ (result.op = result'.op /\ result.arg = result'.arg) => result' = result
          /\ ( /\ result.op = "generate_proof"
               /\ result.arg = result'.arg
               /\ result.ok
               /\ proof # None
               /\ proof' # None ) => proof' = proof ]_vars

C15_Witness ==
    /\ result.op = "generate_proof"
    /\ result.ok
    /\ result.arg = 0
    /\ item_count = 3
    /\ overflow_records # <<>>
    /\ items = [i \in 0..2 |-> appended[i + 1]]

\* C16: MembershipProof.verify() depends on the proof's own item, path and root
\* only: on a kept proof it returns after further appends what it returned
\* before them, and a mismatch is the value false, never an error.
C16_VerifyIgnoresLaterAppends ==
    [][ (result'.op = "verify" /\ proof' # None) =>
          /\ result'.err = ""
          /\ result'.ok \in BOOLEAN
          /\ proof' = proof
          /\ proof_at.first_verify # "none" =>
                result'.ok = (proof_at.first_verify = "true") ]_vars

C16_Witness ==
    /\ result.op = "verify"
    /\ result.ok
    /\ proof # None
    /\ proof_at.first_verify = "true"
    /\ item_count > proof_at.len
    /\ Some(proof[1].root) # root_digest(digest, Self)


\* byte strings put in the place of a proof's item: the empty string and the
\* strings of one or two item bytes
TamperItems ==
    {<<>>} \cup Items \cup {x \o y : x \in Items, y \in Items}

TamperValues(D) ==
    TamperItems
        \cup {<<Byte("a"), Byte(","), Byte("b")>>}
        \cup {digest_item(D, x) : x \in Items}
        \cup {digest_items(D, <<x, y>>) : x \in Items, y \in Items}

\* C18: when a path whose positions are in range verifies an item against a
\* root, the path with any one sibling value of any element replaced by a
\* different value does not verify that item against that root.
C18_TamperedSiblingRejected ==
    proof # None =>
        LET p == proof[1]
            root == final_digest(digest, p.path, p.item)
        IN  /\ \A e \in 1..Len(p.path) : p.path[e].position <= Len(p.path[e].siblings)
            /\ ProofPath_verify(digest, p.path, p.item, root)
            /\ \A e \in 1..Len(p.path) :
                  \A sb \in 1..Len(p.path[e].siblings) :
                     \A v \in TamperValues(digest) :
                        v # p.path[e].siblings[sb] =>
                           ~ProofPath_verify(digest,
                                [p.path EXCEPT ![e].siblings[sb] = v], p.item, root)

C18_Witness ==
    /\ proof # None
    /\ Len(proof[1].path) = 2
    /\ proof[1].path[1].k = "RawSiblings"
    /\ proof[1].path[2].k = "Siblings"
    /\ proof[1].root = final_digest(digest, proof[1].path, proof[1].item)
    /\ width = 2


\* the tower after appending xs[k..] in order
RECURSIVE AppendAll(_, _, _, _)
AppendAll(D, self, xs, k) ==
    IF k > Len(xs) THEN self
    ELSE AppendAll(D, append(D, self, xs[k]), xs, k + 1)

\* xs with the items at i and j exchanged
Swap(xs, i, j) == [xs EXCEPT ![i] = xs[j], ![j] = xs[i]]

\* the Digest node the newest level-0 aggregation pushed to level 1
LastGroupDigest(self) ==
    LET r == CHOOSE q \in 1..Len(self.overflow_records) :
                /\ self.overflow_records[q].level = 0
                /\ \A u \in (q + 1)..Len(self.overflow_records) :
                      self.overflow_records[u].level # 0
    IN  self.overflow_records[r].result_digest

\* C19: two append sequences that differ only by exchanging distinct items
\* inside one width-W aggregation group give that group different digests.
C19_GroupOrderMatters ==
    (item_count > 0 /\ item_count % width = 0) =>
        \A i, j \in (item_count - width + 1)..item_count :
            (i < j /\ appended[i] # appended[j]) =>
                LastGroupDigest(AppendAll(digest, new(width).v, Swap(appended, i, j), 1))
                    # LastGroupDigest(Self)

C19_Witness ==
    /\ item_count = 6
    /\ width = 3
    /\ result.op = "append"
    /\ appended[4] # appended[6]
    /\ digest = "MockDigest"

\* C20: new(W) with W > 1 gives a tower of exactly one empty level: height()
\* is 1, len() is 0, is_empty() holds, level(0) is empty and root_digest() is
\* None; height() stays 1 until W items have been appended.
C20_FreshTower ==
    /\ appended = <<>> =>
          /\ height(Self) = 1
          /\ len(Self) = 0
          /\ is_empty(Self)
          /\ level(Self, 0) = Some(<<>>)
          /\ root_digest(digest, Self) = None
    /\ Len(appended) < width => height(Self) = 1
    /\ Len(appended) = width => height(Self) = 2
    /\ (result.op = "new" /\ result.ok) =>
          /\ width = result.arg
          /\ width > 1
          /\ levels = <<<<>>>>
          /\ item_count = 0

C20_Witness ==
    /\ width = 3
    /\ Len(appended) = 2
    /\ result.op = "height"
    /\ result.val = <<1>>


\* C21: appended items are never removed or changed: for every i < len() the
\* raw item stored for index i is the i-th appended item, after any later
\* appends and cascades, also once the level-0 node that held it was cleared.
C21_ItemsKept ==
    /\ DOMAIN items = 0..(item_count - 1)
    /\ \A i \in 0..(item_count - 1) : items[i] = appended[i + 1]

C21_Witness ==
    /\ width = 2
    /\ item_count = 5
    /\ appended[1] # appended[2]
    /\ appended[1] # appended[5]
    /\ Len(overflow_records) = 3
    /\ items[0] = appended[1]
    /\ \A l \in 1..Len(levels) : \A q \in 1..Len(levels[l]) :
          levels[l][q] # TowerNodeItem(appended[1])

\* what a level yields as a digest: its single node's digest, or digest_items
\* over its nodes in order
LevelValue(D, nodes) ==
    IF Len(nodes) = 1
    THEN IF nodes[1].k = "Item" THEN digest_item(D, nodes[1].v) ELSE nodes[1].v
    ELSE digest_items(D, AsRefAll(nodes))

C23_PathAuthenticatesOneItem ==
    (result.op = "ProofPath_verify" /\ result.ok /\ digest = "MockDigest") =>
        \A y \in Items :
            y # result.val[2] =>
                ~ProofPath_verify(digest, result.val[1], y, result.val[3])

\* s with v put in at 0-based position p
InsertAt(s, p, v) == SubSeq(s, 1, p) \o <<v>> \o SubSeq(s, p + 1, Len(s))

\* the fold over a path, bottom to top: cur is the raw item until an element
\* has consumed it (raw = TRUE), a digest afterwards
RECURSIVE Fold(_, _, _, _, _, _)
Fold(D, path, k, item, raw, cur) ==
    IF k > Len(path) THEN (IF raw THEN digest_item(D, item) ELSE cur)
    ELSE LET e == path[k]
             value == IF e.k = "RawSiblings" /\ k = 1 THEN item
                      ELSE IF raw THEN digest_item(D, item) ELSE cur
         IN  Fold(D, path, k + 1, item, FALSE,
                  digest_items(D, InsertAt(e.siblings, e.position, value)))

PositionsInRange(path) ==
    \A k \in 1..Len(path) : path[k].position <= Len(path[k].siblings)

\* C26: for a path whose positions are all in range, ProofPath::verify is true
\* exactly when the bottom-to-top fold of the path over the item gives the
\* expected root; an empty path folds to digest_item(item).
C26_VerifyIsTheFold ==
    /\ (result.op = "ProofPath_verify" /\ PositionsInRange(result.val[1])) =>
          result.ok = (Fold(digest, result.val[1], 1, result.val[2], TRUE, <<>>)
                          = result.val[3])
    /\ proof # None =>
          /\ PositionsInRange(proof[1].path)
          /\ MembershipProof_verify(digest, proof[1])
                = (Fold(digest, proof[1].path, 1, proof[1].item, TRUE, <<>>)
                      = proof[1].root)

C26_Witness ==
    /\ result.op = "ProofPath_verify"
    /\ result.ok
    /\ Len(result.val[1]) = 2
    /\ result.val[1][1] = PathElementRawSiblings(1, <<<<Byte("a")>>>>)
    /\ result.val[1][2] = PathElementSiblings(2, <<<<Byte("a")>>, <<Byte("b")>>>>)
    /\ result.val[2] = <<Byte("b")>>

\* C25: Sha256Digest::digest_items is injective on ordered groups: two groups
\* that differ as sequences of byte strings give different outputs, and two
\* towers whose level-0 groups differ have different roots.
C25_Sha256GroupsInjective ==
    (result.op = "digest_items" /\ digest = "Sha256Digest") =>
        \A g \in HandGroups :
            g # result.val[1] =>
                /\ digest_items(digest, g) # result.val[2]
                /\ root_digest(digest, AppendAll(digest, new(2).v, g, 1))
                      # root_digest(digest,
                                    AppendAll(digest, new(2).v, result.val[1], 1))


RECURSIVE FloorLog(_, _)
FloorLog(b, n) == IF n < b THEN 0 ELSE 1 + FloorLog(b, n \div b)

\* C24: the tower is a base-W counter: after n appends level d holds
\* floor(n / W^d) mod W nodes for every d < height(), height() is 1 for n = 0
\* and 1 + floor(log_W n) for n >= 1, and the highest level is non-empty
\* whenever n >= 1.
C24_BaseWCounter ==
    /\ item_count = Len(appended)
    /\ \A d \in 0..(height(Self) - 1) :
          Len(levels[d + 1]) = (item_count \div Pow(width, d)) % width
    /\ height(Self) = IF item_count = 0 THEN 1 ELSE 1 + FloorLog(width, item_count)
    /\ item_count >= 1 => levels[height(Self)] # <<>>

C24_Witness ==
    /\ width = 2
    /\ item_count = 6
    /\ height(Self) = 3
    /\ Len(levels[1]) = 0
    /\ Len(levels[2]) = 1
    /\ Len(levels[3]) = 1
    /\ result.op = "append"

\* C27: a NodeId is consumed at most once: it occurs in the node_ids of at
\* most one OverflowRecord, and at most once inside that list.
C27_NodeIdConsumedOnce ==
    \A r1 \in 1..Len(overflow_records) :
        \A q1 \in 1..Len(overflow_records[r1].node_ids) :
            \A r2 \in r1..Len(overflow_records) :
                \A q2 \in 1..Len(overflow_records[r2].node_ids) :
                    overflow_records[r1].node_ids[q1] = overflow_records[r2].node_ids[q2]
                        => (r1 = r2 /\ q1 = q2)

C27_Witness ==
    /\ width = 2
    /\ item_count = 8
    /\ Len(overflow_records) = 7
    /\ overflow_records[7].level = 2
    /\ appended[1] = appended[3]
    /\ appended[2] = appended[4]

\* the NodeId of the complete W-ary tree of depth d over the items
\* start .. start + W^d - 1
RECURSIVE IdTree(_, _, _)
IdTree(W, d, start) ==
    IF d = 0 THEN NodeIdItem(start)
    ELSE NodeIdDigest([k \in 1..W |-> IdTree(W, d - 1, start + (k - 1) * Pow(W, d - 1))])

\* how many records before ledger position r have the level of record r
EarlierSameLevel(r) ==
    Cardinality({q \in 1..(r - 1) : overflow_records[q].level = overflow_records[r].level})

RecordsOfLevel(d) ==
    Cardinality({q \in 1..Len(overflow_records) : overflow_records[q].level = d})

\* C28: every OverflowRecord lists exactly W NodeIds, those of the W nodes of
\* the overflowing level in the order they were appended to it; its
\* result_digest is digest_items over those W nodes and is the Digest node
\* pushed to level + 1.
C28_RecordShape ==
    \A r \in 1..Len(overflow_records) :
        LET rec == overflow_records[r]
            d == rec.level
            j == EarlierSameLevel(r)
        IN  /\ Len(rec.node_ids) = width
            /\ rec.node_ids =
                  [k \in 1..width |-> IdTree(width, d, (j * width + k - 1) * Pow(width, d))]
            /\ rec.result_digest =
                  GroupTree(digest, width, d + 1, j * Pow(width, d + 1), appended)
            /\ j >= width * RecordsOfLevel(d + 1) =>
                  /\ d + 2 <= Len(levels)
                  /\ (j % width) + 1 <= Len(levels[d + 2])
                  /\ levels[d + 2][(j % width) + 1] = TowerNodeDigest(rec.result_digest)

C28_Witness ==
    /\ width = 3
    /\ item_count = 9
    /\ Len(overflow_records) = 4
    /\ overflow_records[4].level = 1
    /\ appended[1] # appended[2]
    /\ levels[3] = <<TowerNodeDigest(overflow_records[4].result_digest)>>


\* how many levels, from level l upward, reach W nodes when level l is given
\* one more node
RECURSIVE LevelsReachingW(_, _, _)
LevelsReachingW(lvls, w, l) ==
    IF l <= Len(lvls) /\ Len(lvls[l]) + 1 >= w
    THEN 1 + LevelsReachingW(lvls, w, l + 1)
    ELSE 0

\* C29: the overflow ledger is append-only: an append leaves every existing
\* record unchanged at its ledger position and adds exactly one record per
\* aggregation performed during it (none if no level reached W); nothing else
\* touches the ledger.
C29_LedgerAppendOnly ==
    [][ /\ Len(overflow_records') >= Len(overflow_records)
        /\ SubSeq(overflow_records', 1, Len(overflow_records)) = overflow_records
        /\ IF item_count' = item_count + 1
           THEN /\ Len(overflow_records') =
                      Len(overflow_records) + LevelsReachingW(levels, width, 1)
                /\ \A k \in 1..LevelsReachingW(levels, width, 1) :
                      overflow_records'[Len(overflow_records) + k].level = k - 1
           ELSE overflow_records' = overflow_records ]_vars

C29_Witness ==
    /\ width = 2
    /\ item_count = 4
    /\ result.op = "append"
    /\ Len(overflow_records) = 3
    /\ overflow_records[1].level = 0
    /\ overflow_records[2].level = 0
    /\ overflow_records[3].level = 1

RECURSIVE SumRecords(_, _, _)
SumRecords(n, w, d) ==
    IF n \div Pow(w, d + 1) = 0 THEN 0
    ELSE (n \div Pow(w, d + 1)) + SumRecords(n, w, d + 1)

\* C30: level d is aggregated during the n-th append exactly when W^(d+1)
\* divides n: after n appends the ledger holds floor(n / W^(d+1)) records of
\* each level d, the sum of these in all, and at most n - 1 for n >= 1.
C30_RecordCount ==
    /\ \A d \in 0..Len(levels) :
          RecordsOfLevel(d) = item_count \div Pow(width, d + 1)
    /\ Len(overflow_records) = SumRecords(item_count, width, 0)
    /\ item_count >= 1 => Len(overflow_records) <= item_count - 1
    /\ \A d \in 0..Len(levels) :
          (\E r \in 1..Len(overflow_records) :
              /\ overflow_records[r].level = d
              /\ overflow_records[r].node_ids[width] =
                    IdTree(width, d, item_count - Pow(width, d)))
          <=> (item_count >= 1 /\ item_count % Pow(width, d + 1) = 0)

C30_Witness ==
    /\ width = 2
    /\ item_count = 8
    /\ result.op = "append"
    /\ Len(overflow_records) = 7
    /\ RecordsOfLevel(2) = 1

\* C31: ledger ordering: a record of level 0 consumes only Item ids, the W
\* consecutive item indices kW .. kW+W-1 in increasing order; a record of level
\* d >= 1 consumes only Digest ids, each produced by a record of level d-1
\* that stands earlier in the ledger; the records of one append stand in
\* ascending level order (a record of level d >= 1 directly follows the record
\* of level d-1 made by the same append).
C31_LedgerOrdering ==
    \A r \in 1..Len(overflow_records) :
        LET rec == overflow_records[r]
        IN  IF rec.level = 0
            THEN /\ \A q \in 1..Len(rec.node_ids) : rec.node_ids[q].k = "Item"
                 /\ Len(rec.node_ids) = width
                 /\ \E k \in 0..item_count :
                       \A q \in 1..width : rec.node_ids[q] = NodeIdItem(k * width + q - 1)
            ELSE /\ \A q \in 1..Len(rec.node_ids) :
                       /\ rec.node_ids[q].k = "Digest"
                       /\ \E p \in 1..(r - 1) :
                             /\ overflow_records[p].level = rec.level - 1
                             /\ rec.node_ids[q] = NodeIdDigest(overflow_records[p].node_ids)
                 /\ r > 1
                 /\ overflow_records[r - 1].level = rec.level - 1
                 /\ rec.node_ids[Len(rec.node_ids)] =
                       NodeIdDigest(overflow_records[r - 1].node_ids)

C31_Witness ==
    /\ width = 2
    /\ item_count = 8
    /\ result.op = "append"
    /\ Len(overflow_records) = 7
    /\ overflow_records[5].level = 0
    /\ overflow_records[6].level = 1
    /\ overflow_records[7].level = 2
    /\ overflow_records[7].node_ids[1] = NodeIdDigest(overflow_records[3].node_ids)

\* the NodeId at level d of item i's provenance chain
ChainNode(i, d) == IdTree(width, d, (i \div Pow(width, d)) * Pow(width, d))

\* the path element the record rec owes to its member node_id
RecordElement(rec, node_id) ==
    LET q == CHOOSE q \in 1..Len(rec.node_ids) : rec.node_ids[q] = node_id
        others == SubSeq(rec.node_ids, 1, q - 1)
                      \o SubSeq(rec.node_ids, q + 1, Len(rec.node_ids))
    IN  IF rec.level = 0
        THEN PathElementRawSiblings(q - 1,
                 [k \in 1..Len(others) |-> appended[others[k].idx + 1]])
        ELSE PathElementSiblings(q - 1,
                 [k \in 1..Len(others) |->
                     overflow_records[CHOOSE p \in 1..Len(overflow_records) :
                         NodeIdDigest(overflow_records[p].node_ids) = others[k]
                     ].result_digest])

\* C32: for every NodeId on item i's provenance chain that an OverflowRecord
\* consumed, generate_proof emits one path element, at the depth of that
\* NodeId: its position is the NodeId's index in the record's list (below W)
\* and its siblings are the other W-1 members in record order, raw item bytes
\* in a RawSiblings element for a level-0 record, the recorded result digests
\* in a Siblings element for a record of a higher level.
C32_RecordElements ==
    \A i \in 0..(item_count - 1) :
        LET p == generate_proof(digest, Self, i)
        IN  \A d \in 0..(Len(levels) - 1) :
                LET node_id == ChainNode(i, d)
                IN  \A r \in 1..Len(overflow_records) :
                        SeqContains(overflow_records[r].node_ids, node_id) =>
                            /\ p.ok
                            /\ d + 1 <= Len(p.v.path)
                            /\ p.v.path[d + 1] =
                                  RecordElement(overflow_records[r], node_id)
                            /\ p.v.path[d + 1].position < width
                            /\ Len(p.v.path[d + 1].siblings) = width - 1

C32_Witness ==
    /\ width = 2
    /\ item_count = 4
    /\ result.op = "generate_proof"
    /\ result.ok
    /\ proof # None
    /\ proof_at = [NoProofAt EXCEPT !.index = 2, !.len = 4]
    /\ Len(proof[1].path) = 2
    /\ proof[1].path[1] = PathElementRawSiblings(0, <<appended[4]>>)
    /\ proof[1].path[2] =
          PathElementSiblings(1, <<overflow_records[1].result_digest>>)
    /\ appended[3] # appended[4]

\* some record of the ledger lists node_id
Consumed(node_id) ==
    \E r \in 1..Len(overflow_records) :
        SeqContains(overflow_records[r].node_ids, node_id)

\* the depth, from d upward, of the first node of item i's chain that no
\* record has consumed
RECURSIVE ChainEnd(_, _)
ChainEnd(i, d) == IF Consumed(ChainNode(i, d)) THEN ChainEnd(i, d + 1) ELSE d

\* C33: the node of item i's chain that no record has consumed is resident at
\* one live (level, index); if that level holds m > 1 nodes the path ends with
\* exactly one more element, a RawSiblings element with position = index and
\* the bytes of the other m-1 live nodes in position order; if the level holds
\* that node alone the path has no further element.
C33_LiveLevelElement ==
    \A i \in 0..(item_count - 1) :
        LET c == ChainEnd(i, 0)
            live == {key \in DOMAIN level_nodes : level_nodes[key] = ChainNode(i, c)}
            base == (i \div Pow(width, c + 1)) * Pow(width, c + 1)
            p == generate_proof(digest, Self, i)
        IN  /\ p.ok
            /\ Cardinality(live) = 1
            /\ \A key \in live :
                  LET m == Len(levels[key[1] + 1])
                  IN  /\ key[2] < m
                      /\ IF m > 1
                         THEN /\ Len(p.v.path) = c + 1
                              /\ p.v.path[c + 1] =
                                    PathElementRawSiblings(key[2],
                                        [k \in 1..(m - 1) |->
                                            GroupTree(digest, width, key[1],
                                                base + (IF k <= key[2] THEN k - 1 ELSE k)
                                                           * Pow(width, key[1]),
                                                appended)])
                         ELSE Len(p.v.path) = c

C33_Witness ==
    /\ width = 3
    /\ item_count = 2
    /\ result.op = "generate_proof"
    /\ result.ok
    /\ proof # None
    /\ proof_at = [NoProofAt EXCEPT !.index = 0, !.len = 2]
    /\ overflow_records = <<>>
    /\ proof[1].path = <<PathElementRawSiblings(0, <<appended[2]>>)>>

\* the ledger records that consumed a node of item i's provenance chain
ChainRecords(i) ==
    LET chain == [d \in 0..(Len(levels) - 1) |-> ChainNode(i, d)]
    IN  {r \in 1..Len(overflow_records) :
            \E d \in DOMAIN chain : SeqContains(overflow_records[r].node_ids, chain[d])}

\* C34: the path of generate_proof(i) has one element per ledger record on
\* item i's provenance chain, plus one if the live level where the chain ends
\* holds more than one node; it is never longer than height(), and after
\* exactly W^k appends every item's path has exactly k elements.
C34_PathLength ==
    \A i \in 0..(item_count - 1) :
        LET p == generate_proof(digest, Self, i)
            c == Cardinality(ChainRecords(i))
        IN  /\ p.ok
            /\ c + 1 <= Len(levels)
            /\ Len(p.v.path) = c + (IF Len(levels[c + 1]) > 1 THEN 1 ELSE 0)
            /\ Len(p.v.path) <= height(Self)
            /\ \A k \in 0..MaxItems :
                  item_count = Pow(width, k) => Len(p.v.path) = k

C34_Witness ==
    /\ width = 2
    /\ item_count = 4
    /\ result.op = "generate_proof"
    /\ result.ok
    /\ proof # None
    /\ proof_at.len = 4
    /\ proof_at.index = 1
    /\ Len(proof[1].path) = 2
    /\ height(Self) = 3

\* C35: height() never decreases; it grows only in an append whose cascade
\* reaches the current top level and aggregates it (the top level held W-1
\* nodes and every level below it too), and then by exactly one; an append
\* that does not aggregate the top level leaves height() unchanged.
C35_HeightGrowsByTopOverflow ==
    [][ LET h == height(Self)
            h2 == height(Self')
            toplevel_aggregated ==
                /\ item_count' = item_count + 1
                /\ LevelsReachingW(levels, width, 1) = h
        IN  /\ h2 >= h
            /\ h2 # h => (toplevel_aggregated /\ h2 = h + 1)
            /\ (item_count' = item_count + 1 /\ ~toplevel_aggregated) => h2 = h
            /\ toplevel_aggregated =>
                  /\ h2 = h + 1
                  /\ Len(overflow_records') > Len(overflow_records)
                  /\ overflow_records'[Len(overflow_records')].level = h - 1 ]_vars

C35_Witness ==
    /\ width = 2
    /\ item_count = 4
    /\ result.op = "append"
    /\ height(Self) = 3
    /\ overflow_records[3].level = 1
    /\ levels[1] = <<>>
    /\ levels[2] = <<>>

\* C36: level typing: level 0 contains only Item nodes and every level d > 0
\* contains only Digest nodes.
C36_LevelTyping ==
    \A l \in 1..Len(levels) :
        \A q \in 1..Len(levels[l]) :
            /\ levels[l][q].k = (IF l = 1 THEN "Item" ELSE "Digest")
            /\ <<l - 1, q - 1>> \in DOMAIN level_nodes
            /\ level_nodes[<<l - 1, q - 1>>].k = levels[l][q].k

C36_Witness ==
    /\ width = 3
    /\ item_count = 8
    /\ result.op = "append"
    /\ Len(levels[1]) = 2
    /\ Len(levels[2]) = 2
    /\ levels[1][2] = TowerNodeItem(appended[8])
    /\ levels[2][2] = TowerNodeDigest(overflow_records[2].result_digest)

\* C37: for every valid index the provenance walk of generate_proof ends
\* after following at most height() - 1 ledger records, at most one per level
\* (their levels are 0, 1, 2, ... in the order followed), and it ends at a
\* NodeId found resident in a live level, never without finding it.
C37_WalkEndsAtLiveNode ==
    \A i \in 0..(item_count - 1) :
        LET w == WalkRecords(Self, NodeIdItem(i))
        IN  /\ generate_proof(digest, Self, i).ok
            /\ Len(w) <= height(Self) - 1
            /\ \A a \in 1..Len(w) : overflow_records[w[a]].level = a - 1
            /\ WalkEndLevel(Self, NodeIdItem(i)) = Len(w)
            /\ Len(w) + 1 <= Len(levels)
            /\ levels[Len(w) + 1] # <<>>

C37_Witness ==
    /\ width = 2
    /\ item_count = 4
    /\ result.op = "generate_proof"
    /\ result.ok
    /\ proof # None
    /\ proof_at = [NoProofAt EXCEPT !.index = 0, !.len = 4]
    /\ WalkRecords(Self, NodeIdItem(0)) = <<1, 3>>
    /\ WalkEndLevel(Self, NodeIdItem(0)) = 2
    /\ height(Self) = 3

\* C38: every append completes; its cascade aggregates the levels 0, 1, ..., j
\* in ascending order (each held W-1 nodes before its push), stops at the first
\* level whose length after the push is below W, leaves the levels above that
\* one untouched, and performs at most height() aggregations, height() taken
\* before the call.
C38_CascadeStops ==
    [][ item_count' = item_count + 1 =>
          LET n == Len(overflow_records)
              k == Len(overflow_records') - n
              before(l) == IF l <= Len(levels) THEN Len(levels[l]) ELSE 0
          IN  /\ k >= 0
              /\ k <= height(Self)
              /\ \A a \in 1..k :
                    /\ overflow_records'[n + a].level = a - 1
                    /\ before(a) + 1 = width
                    /\ levels'[a] = <<>>
              /\ Len(levels') >= k + 1
              /\ Len(levels'[k + 1]) = before(k + 1) + 1
              /\ Len(levels'[k + 1]) < width
              /\ \A l \in (k + 2)..Len(levels) :
                    l <= Len(levels') /\ levels'[l] = levels[l]
              /\ Len(levels') = (IF k + 1 > Len(levels) THEN k + 1 ELSE Len(levels)) ]_vars

C38_Witness ==
    /\ width = 3
    /\ item_count = 9
    /\ result.op = "append"
    /\ Len(overflow_records) = 4
    /\ overflow_records[3].level = 0
    /\ overflow_records[4].level = 1
    /\ levels = << <<>>, <<>>, <<TowerNodeDigest(overflow_records[4].result_digest)>> >>

\* C39: item_positions maps every item index to the live position of the node
\* that currently covers the item: the raw item in level 0, or the digest it
\* was aggregated into, also after that digest was itself aggregated into a
\* higher level.
C39_ItemPositionsCurrent ==
    \A i \in 0..(item_count - 1) :
        /\ i \in DOMAIN item_positions
        /\ LET node_id == ChainNode(i, ChainEnd(i, 0))
           IN  \E key \in DOMAIN level_nodes :
                  /\ level_nodes[key] = node_id
                  /\ item_positions[i] = ItemPosition(key[1], key[2])

====
